---- MODULE Spec2Model ----
(***************************************************************************)
(* A model of psst's track metadata resolution (psst-core/src/metadata.rs) *)
(* and of the Authenticate controller of the preferences window            *)
(* (psst-gui/src/ui/preferences.rs).                                       *)
(*                                                                         *)
(* Rust's Option<T> is modelled as a sequence of length at most one:       *)
(* None is <<>> and Some(x) is <<x>>.  A string or byte slice is a         *)
(* sequence of one-letter strings.                                         *)
(***************************************************************************)
EXTENDS Integers, Sequences, FiniteSets, TLC

VARIABLES
    op,                 \* the function applied in this run ("" before the call)
    pc,                 \* "start" before the call, "done" after it
    ret,                \* Option of the call's return value
    restriction,        \* the Restriction passed to the per-rule evaluator
    countries,          \* the byte list passed to is_country_in_list
    country,            \* the listener's country code
    track,              \* the Track the ToAudioPath methods are called on
    preferred_bitrate,  \* the bitrate passed to to_audio_path
    session_authenticated, \* whether the session is currently authenticated
    fetch_count,        \* the number of Fetch::fetch calls made so far
    fetch_call,         \* Option of the last fetch call: what it was given and saw
    fetch_requests,     \* the remote procedure calls the last fetch issued, in order
    fetch_ret,          \* Option of the Result the last fetch returned
    thread,             \* Authenticate.thread: Option of the stored worker handle
    stored_credentials, \* data.config: Option of the stored credentials
    auth_result,        \* data.preferences.auth.result, a Promise
    auth_form,          \* data.preferences.auth: the login the form holds
    event_queue,        \* events in flight to the controller, oldest first
    workers,            \* the authentication workers still running
    spawned,            \* the number of workers spawned so far
    child_events,       \* the events forwarded to the child widget, in order
    handled             \* the events the controller has handled, in order

pureVars == <<op, pc, ret, restriction, countries, country, track, preferred_bitrate>>

fetchVars == <<session_authenticated, fetch_count, fetch_call, fetch_requests, fetch_ret>>

authVars == <<thread, stored_credentials, auth_result, auth_form, event_queue, workers,
              spawned, child_events, handled>>

vars == <<pureVars, fetchVars, authVars>>

----------------------------------------------------------------------------
(* Option *)

None == <<>>

Some(x) == <<x>>

IsSome(o) == Len(o) = 1

Unwrap(o) == o[1]

Option(S) == {None} \cup {Some(x) : x \in S}

----------------------------------------------------------------------------
(* Bounds and input domains *)

\* longest country list, in bytes, given to the per-rule evaluator
MaxListLen == 4

\* the bytes country codes and country lists are made of
Bytes == {"D", "E"}

\* every two-letter country code over Bytes
Countries == {<<a, b>> : a \in Bytes, b \in Bytes}

SeqsUpTo(S, n) == UNION {[1..k -> S] : k \in 0..n}

\* country lists as the wire delivers them: any byte string, well-formed
\* (even length) or not
ByteLists == SeqsUpTo(Bytes, MaxListLen)

Restrictions == [countries_allowed : Option(ByteLists), countries_forbidden : Option(ByteLists)]

NoRestriction == [countries_allowed |-> None, countries_forbidden |-> None]

EmptyTrack == [gid |-> None, file |-> <<>>, restriction |-> <<>>, alternative |-> <<>>, duration |-> None]

\* the resolution functions are not in use
IdlePure ==
    /\ op = ""
    /\ pc = "idle"
    /\ ret = None
    /\ restriction = NoRestriction
    /\ countries = <<>>
    /\ country = <<"D", "E">>
    /\ track = EmptyTrack
    /\ preferred_bitrate = 96

\* no fetch is made
IdleFetch ==
    /\ session_authenticated = FALSE
    /\ fetch_count = 0
    /\ fetch_call = None
    /\ fetch_requests = <<>>
    /\ fetch_ret = None

\* the preferences window is not open
IdleAuth ==
    /\ thread = None
    /\ stored_credentials = None
    /\ auth_result = <<"Empty">>
    /\ auth_form = ""
    /\ event_queue = <<>>
    /\ workers = {}
    /\ spawned = 0
    /\ child_events = <<>>
    /\ handled = <<>>

----------------------------------------------------------------------------
(* Region restriction evaluator *)

\* slice::chunks(2): consecutive two-element pieces, the last one shorter
\* when the length is odd
chunks2(s) == [i \in 1..((Len(s) + 1) \div 2) |->
                 SubSeq(s, 2 * i - 1, IF 2 * i <= Len(s) THEN 2 * i ELSE Len(s))]

\* a membership test that slides over every byte offset instead of chunking
is_country_in_list_windows(countries_, country_) ==
    \E i \in 1..(Len(countries_) - 1) : SubSeq(countries_, i, i + 1) = country_

is_country_in_list(countries_, country_) ==
    \E i \in DOMAIN chunks2(countries_) : chunks2(countries_)[i] = country_

\* the evaluator without the empty-allowed-list sentinel
is_restricted_in_region_no_sentinel(restriction_, country_) ==
    IF /\ IsSome(restriction_.countries_allowed)
       /\ is_country_in_list(Unwrap(restriction_.countries_allowed), country_)
    THEN FALSE
    ELSE /\ IsSome(restriction_.countries_forbidden)
         /\ is_country_in_list(Unwrap(restriction_.countries_forbidden), country_)

\* the evaluator consulting the forbidden list before the allowed list
is_restricted_in_region_forbidden_first(restriction_, country_) ==
    IF /\ IsSome(restriction_.countries_forbidden)
       /\ is_country_in_list(Unwrap(restriction_.countries_forbidden), country_)
    THEN TRUE
    ELSE /\ IsSome(restriction_.countries_allowed)
         /\ Unwrap(restriction_.countries_allowed) = <<>>

is_restricted_in_region(restriction_, country_) ==
    IF /\ IsSome(restriction_.countries_allowed)
       /\ Unwrap(restriction_.countries_allowed) = <<>>
    THEN TRUE
    ELSE IF /\ IsSome(restriction_.countries_allowed)
            /\ is_country_in_list(Unwrap(restriction_.countries_allowed), country_)
    THEN FALSE
    ELSE IF /\ IsSome(restriction_.countries_forbidden)
            /\ is_country_in_list(Unwrap(restriction_.countries_forbidden), country_)
    THEN TRUE
    ELSE FALSE

----------------------------------------------------------------------------
(* Specification of the per-rule evaluator: one rule, one country *)

InitRule ==
    /\ op = ""
    /\ pc = "start"
    /\ ret = None
    /\ restriction \in Restrictions
    /\ countries = <<>>
    /\ country \in Countries
    /\ track = EmptyTrack
    /\ preferred_bitrate = 96
    /\ IdleFetch /\ IdleAuth

CallIsRestrictedInRegion ==
    /\ pc = "start"
    /\ op' = "is_restricted_in_region"
    /\ ret' = Some(is_restricted_in_region(restriction, country))
    /\ pc' = "done"
    /\ UNCHANGED <<restriction, countries, country, track, preferred_bitrate>>
    /\ UNCHANGED <<fetchVars, authVars>>

CallIsCountryInList ==
    /\ pc = "start"
    /\ \E list \in {restriction.countries_allowed, restriction.countries_forbidden} :
          /\ IsSome(list)
          /\ countries' = Unwrap(list)
          /\ ret' = Some(is_country_in_list(Unwrap(list), country))
    /\ op' = "is_country_in_list"
    /\ pc' = "done"
    /\ UNCHANGED <<restriction, country, track, preferred_bitrate>>
    /\ UNCHANGED <<fetchVars, authVars>>

NextRule == CallIsRestrictedInRegion \/ CallIsCountryInList

SpecRule == InitRule /\ [][NextRule]_vars

----------------------------------------------------------------------------
(* Claims about the per-rule evaluator *)

\* the country occurs in the list at an even byte offset, as a whole
\* two-byte code
HasCode(list, c) ==
    \E k \in 0..((Len(list) \div 2) - 1) : list[2 * k + 1] = c[1] /\ list[2 * k + 2] = c[2]

RuleDone == pc = "done" /\ op = "is_restricted_in_region"

\* C1: a rule whose allowed list is present and empty is restricted in every
\* country, whatever its forbidden list is.
C1_EmptyAllowedRestrictsEverywhere ==
    (RuleDone /\ restriction.countries_allowed = Some(<<>>)) => ret = Some(TRUE)

\* C1 witness: the sentinel decided a rule whose forbidden list is present,
\* non-empty and does not name the country.
C1_Witness ==
    /\ RuleDone
    /\ restriction.countries_allowed = Some(<<>>)
    /\ IsSome(restriction.countries_forbidden)
    /\ Unwrap(restriction.countries_forbidden) # <<>>
    /\ ~HasCode(Unwrap(restriction.countries_forbidden), country)
    /\ ret = Some(TRUE)

\* C2: with a present, non-empty allowed list, a country in it is not
\* restricted even when also forbidden; a country not in it is restricted
\* exactly when the forbidden list is present and contains it.
C2_NonEmptyAllowedPrecedence ==
    (/\ RuleDone
     /\ IsSome(restriction.countries_allowed)
     /\ Unwrap(restriction.countries_allowed) # <<>>)
    => ret = Some(IF HasCode(Unwrap(restriction.countries_allowed), country)
                  THEN FALSE
                  ELSE /\ IsSome(restriction.countries_forbidden)
                       /\ HasCode(Unwrap(restriction.countries_forbidden), country))

\* C2 witness: the country is in the allowed list and in the forbidden list,
\* and the rule evaluated to not restricted.
C2_Witness ==
    /\ RuleDone
    /\ IsSome(restriction.countries_allowed)
    /\ HasCode(Unwrap(restriction.countries_allowed), country)
    /\ IsSome(restriction.countries_forbidden)
    /\ HasCode(Unwrap(restriction.countries_forbidden), country)
    /\ ret = Some(FALSE)

ListDone == pc = "done" /\ op = "is_country_in_list"

Malformed(list) == Len(list) % 2 = 1

\* C8 as stated: a list of odd length contains no country at all.
C8_MalformedContainsNothing ==
    (ListDone /\ Malformed(countries)) => ret = Some(FALSE)

\* C8 as amended: in a list of odd length only the trailing single byte is
\* ignored; the test is true exactly when one of the whole two-byte codes
\* before it equals the country.
C8_MalformedMatchesWholeCodes ==
    (ListDone /\ Malformed(countries)) => ret = Some(HasCode(countries, country))

\* C8 witness: a list of odd length, longer than one code, one of whose whole
\* codes is the country, tested true.
C8_Witness ==
    /\ ListDone
    /\ Malformed(countries)
    /\ Len(countries) > 2
    /\ HasCode(countries, country)
    /\ ret = Some(TRUE)

----------------------------------------------------------------------------
(* Identifiers (psst-core item_id): raw bytes wrapped into typed ids *)

\* raw identifying bytes as the metadata service may send them
RawIds == {<<>>, <<1>>, <<2>>}

\* ItemId::from_raw: absent for unusable bytes, else the bytes with the kind tag
ItemId_from_raw(data, id_type_) ==
    IF data = <<>> THEN None ELSE Some([id |-> data, id_type |-> id_type_])

\* FileId::from_raw: the same contract without a kind tag
FileId_from_raw(data) ==
    IF data = <<>> THEN None ELSE Some([file_id |-> data])

----------------------------------------------------------------------------
(* ToAudioPath for Track: restriction of a whole track *)

\* most restriction rules of a track
MaxRules == 2

\* well-formed country lists of at most one code
CodeLists(codes) == {None, Some(<<>>)} \cup {Some(c) : c \in codes}

CodeRestrictions(codes) ==
    [countries_allowed : CodeLists(codes), countries_forbidden : CodeLists(codes)]

\* a track restricted only when every rule restricts
Track_is_restricted_in_region_all(track_, country_) ==
    /\ track_.restriction # <<>>
    /\ \A i \in DOMAIN track_.restriction :
          is_restricted_in_region(track_.restriction[i], country_)

Track_is_restricted_in_region(track_, country_) ==
    \E i \in DOMAIN track_.restriction :
        is_restricted_in_region(track_.restriction[i], country_)

InitTrack ==
    /\ op = ""
    /\ pc = "start"
    /\ ret = None
    /\ restriction = NoRestriction
    /\ countries = <<>>
    /\ country \in Countries
    /\ \E rules \in SeqsUpTo(CodeRestrictions(Countries), MaxRules) :
          track = [EmptyTrack EXCEPT !.restriction = rules]
    /\ preferred_bitrate = 96
    /\ IdleFetch /\ IdleAuth

CallTrackIsRestrictedInRegion ==
    /\ pc = "start"
    /\ op' = "Track::is_restricted_in_region"
    /\ ret' = Some(Track_is_restricted_in_region(track, country))
    /\ pc' = "done"
    /\ UNCHANGED <<restriction, countries, country, track, preferred_bitrate>>
    /\ UNCHANGED <<fetchVars, authVars>>

NextTrack == CallTrackIsRestrictedInRegion

SpecTrack == InitTrack /\ [][NextTrack]_vars

\* what one rule decides, stated from the lists' contents alone
RuleRestricts(rule, c) ==
    \/ rule.countries_allowed = Some(<<>>)
    \/ /\ ~(IsSome(rule.countries_allowed) /\ HasCode(Unwrap(rule.countries_allowed), c))
       /\ IsSome(rule.countries_forbidden)
       /\ HasCode(Unwrap(rule.countries_forbidden), c)

RuleAllowLists(rule, c) ==
    IsSome(rule.countries_allowed) /\ HasCode(Unwrap(rule.countries_allowed), c)

RestrictingRules(t, c) == {i \in DOMAIN t.restriction : RuleRestricts(t.restriction[i], c)}

TrackDone == pc = "done" /\ op = "Track::is_restricted_in_region"

\* C3: a track is restricted in a country exactly when at least one of its
\* rules, taken alone, restricts there; no rules means not restricted, and a
\* rule that allow-lists the country cancels nothing.
C3_AnyRuleRestricts ==
    TrackDone => ret = Some(RestrictingRules(track, country) # {})

\* C3 witness: a track with a rule that allow-lists the country and another
\* rule that restricts there was found restricted.
C3_Witness ==
    /\ TrackDone
    /\ \E i, j \in DOMAIN track.restriction :
          /\ RuleAllowLists(track.restriction[i], country)
          /\ RuleRestricts(track.restriction[j], country)
    /\ ret = Some(TRUE)

----------------------------------------------------------------------------
(* ToAudioPath for Track: the first allowed alternative *)

\* most alternatives of a track
MaxAlts == 2

\* the countries the alternatives' rules and the listener are drawn from
AltCountries == {<<"D", "E">>, <<"E", "D">>}

\* an alternative is Track-shaped; only its gid and restrictions are read
AltTracks ==
    {[EmptyTrack EXCEPT !.gid = g, !.restriction = rules] :
        g \in Option(RawIds),
        rules \in SeqsUpTo(CodeRestrictions(AltCountries), 1)}

\* the least element of a non-empty set of integers
Least(S) == CHOOSE i \in S : \A j \in S : i <= j

\* an alternative lookup that skips alternatives without usable bytes
find_allowed_alternative_skip_unusable(track_, country_) ==
    LET allowed == {i \in DOMAIN track_.alternative :
                      /\ ~Track_is_restricted_in_region(track_.alternative[i], country_)
                      /\ IsSome(track_.alternative[i].gid)
                      /\ Unwrap(track_.alternative[i].gid) # <<>>}
    IN  IF allowed = {} THEN None
        ELSE ItemId_from_raw(Unwrap(track_.alternative[Least(allowed)].gid), "Track")

find_allowed_alternative(track_, country_) ==
    LET allowed == {i \in DOMAIN track_.alternative :
                      ~Track_is_restricted_in_region(track_.alternative[i], country_)}
    IN  IF allowed = {} THEN None
        ELSE LET alt_track == track_.alternative[Least(allowed)]
             IN  IF ~IsSome(alt_track.gid) THEN None
                 ELSE ItemId_from_raw(Unwrap(alt_track.gid), "Track")

InitAlt ==
    /\ op = ""
    /\ pc = "start"
    /\ ret = None
    /\ restriction = NoRestriction
    /\ countries = <<>>
    /\ country \in AltCountries
    /\ \E alts \in SeqsUpTo(AltTracks, MaxAlts) :
          track = [EmptyTrack EXCEPT !.alternative = alts]
    /\ preferred_bitrate = 96
    /\ IdleFetch /\ IdleAuth

CallFindAllowedAlternative ==
    /\ pc = "start"
    /\ op' = "Track::find_allowed_alternative"
    /\ ret' = Some(find_allowed_alternative(track, country))
    /\ pc' = "done"
    /\ UNCHANGED <<restriction, countries, country, track, preferred_bitrate>>
    /\ UNCHANGED <<fetchVars, authVars>>

NextAlt == CallFindAllowedAlternative

SpecAlt == InitAlt /\ [][NextAlt]_vars

AltDone == pc = "done" /\ op = "Track::find_allowed_alternative"

\* the alternatives no rule of which restricts in the country
UnrestrictedAlts(t, c) ==
    {i \in DOMAIN t.alternative : RestrictingRules(t.alternative[i], c) = {}}

UsableBytes(o) == IsSome(o) /\ Unwrap(o) # <<>>

\* C4: the lookup is decided by the first alternative, in listed order, that
\* is not restricted: its identifier of kind Track is returned; the result is
\* absent when there is none, and also when that alternative has no usable
\* identifying bytes, whatever follows it.
C4_FirstUnrestrictedAlternativeDecides ==
    AltDone =>
        LET open == UnrestrictedAlts(track, country)
        IN  IF open = {} THEN ret = Some(None)
            ELSE LET first == track.alternative[Least(open)]
                 IN  IF UsableBytes(first.gid)
                     THEN ret = Some(Some([id |-> Unwrap(first.gid), id_type |-> "Track"]))
                     ELSE ret = Some(None)

\* C4 witness: the first unrestricted alternative has no usable bytes, a later
\* unrestricted one has, and the lookup returned absent.
C4_Witness ==
    /\ AltDone
    /\ \E i, j \in UnrestrictedAlts(track, country) :
          /\ i = Least(UnrestrictedAlts(track, country))
          /\ i < j
          /\ ~UsableBytes(track.alternative[i].gid)
          /\ UsableBytes(track.alternative[j].gid)
    /\ ret = Some(None)

----------------------------------------------------------------------------
(* ToAudioPath for Track: resolving the audio file *)

\* most file variants of a track
MaxFiles == 2

\* the audio formats of the compatibility table, and one outside it
CompatibleFormats == {"OGG_VORBIS_96", "OGG_VORBIS_160", "OGG_VORBIS_320"}

AudioFormats == CompatibleFormats \cup {"AAC_24"}

Bitrates == {96, 160, 320}

\* AudioFile::compatible_audio_formats: the acceptable formats for a bitrate,
\* most preferred first
compatible_audio_formats(preferred_bitrate_) ==
    CASE preferred_bitrate_ = 96 -> <<"OGG_VORBIS_96", "OGG_VORBIS_160", "OGG_VORBIS_320">>
      [] preferred_bitrate_ = 160 -> <<"OGG_VORBIS_160", "OGG_VORBIS_320", "OGG_VORBIS_96">>
      [] preferred_bitrate_ = 320 -> <<"OGG_VORBIS_320", "OGG_VORBIS_160", "OGG_VORBIS_96">>

AudioFiles == [format : Option(AudioFormats), file_id : Option(RawIds)]

\* durations in milliseconds as the service sends them; none is negative, so
\* the cast to u64 keeps the value
Durations == {0, 1}

\* Duration::from_millis(ms as u64)
Duration_from_millis(ms) == [millis |-> ms]

\* the `?` chain that follows the file selection (metadata.rs lines 53-62)
build_audio_path(track_, file_) ==
    IF ~IsSome(file_.format) THEN None
    ELSE IF ~IsSome(track_.gid) THEN None
    ELSE IF ~IsSome(ItemId_from_raw(Unwrap(track_.gid), "Track")) THEN None
    ELSE IF ~IsSome(file_.file_id) THEN None
    ELSE IF ~IsSome(FileId_from_raw(Unwrap(file_.file_id))) THEN None
    ELSE IF ~IsSome(track_.duration) THEN None
    ELSE Some([item_id |-> Unwrap(ItemId_from_raw(Unwrap(track_.gid), "Track")),
               file_id |-> Unwrap(FileId_from_raw(Unwrap(file_.file_id))),
               file_format |-> Unwrap(file_.format),
               duration |-> Duration_from_millis(Unwrap(track_.duration))])

\* a selection walking the track's files first and taking the first one whose
\* format is compatible at all
select_file_by_file_order(track_, preferred_bitrate_) ==
    LET compatible == compatible_audio_formats(preferred_bitrate_)
        found == {i \in DOMAIN track_.file :
                    \E k \in DOMAIN compatible : track_.file[i].format = Some(compatible[k])}
    IN  IF found = {} THEN None ELSE Some(track_.file[Least(found)])

\* a selection that falls back to the next variant when the matched file has
\* no usable identifying bytes
select_file_with_fallback(track_, preferred_bitrate_) ==
    LET compatible == compatible_audio_formats(preferred_bitrate_)
        good(i) == /\ IsSome(track_.file[i].file_id)
                   /\ Unwrap(track_.file[i].file_id) # <<>>
        found == {k \in DOMAIN compatible :
                    \E i \in DOMAIN track_.file :
                        track_.file[i].format = Some(compatible[k]) /\ good(i)}
    IN  IF found = {} THEN None
        ELSE LET preferred_format == compatible[Least(found)]
             IN  Some(track_.file[Least({i \in DOMAIN track_.file :
                        track_.file[i].format = Some(preferred_format) /\ good(i)})])

\* the find_map over the compatibility list with the inner find over the
\* track's files
select_file(track_, preferred_bitrate_) ==
    LET compatible == compatible_audio_formats(preferred_bitrate_)
        found == {k \in DOMAIN compatible :
                    \E i \in DOMAIN track_.file : track_.file[i].format = Some(compatible[k])}
    IN  IF found = {} THEN None
        ELSE LET preferred_format == compatible[Least(found)]
             IN  Some(track_.file[Least({i \in DOMAIN track_.file :
                                           track_.file[i].format = Some(preferred_format)})])

to_audio_path(track_, preferred_bitrate_) ==
    LET file == select_file(track_, preferred_bitrate_)
    IN  IF ~IsSome(file) THEN None ELSE build_audio_path(track_, Unwrap(file))

InitAudio ==
    /\ op = ""
    /\ pc = "start"
    /\ ret = None
    /\ restriction = NoRestriction
    /\ countries = <<>>
    /\ country = <<"D", "E">>
    /\ \E g \in Option(RawIds), files \in SeqsUpTo(AudioFiles, MaxFiles), d \in Option(Durations) :
          track = [EmptyTrack EXCEPT !.gid = g, !.file = files, !.duration = d]
    /\ preferred_bitrate \in Bitrates
    /\ IdleFetch /\ IdleAuth

CallToAudioPath ==
    /\ pc = "start"
    /\ op' = "Track::to_audio_path"
    /\ ret' = Some(to_audio_path(track, preferred_bitrate))
    /\ pc' = "done"
    /\ UNCHANGED <<restriction, countries, country, track, preferred_bitrate>>
    /\ UNCHANGED <<fetchVars, authVars>>

NextAudio == CallToAudioPath

SpecAudio == InitAudio /\ [][NextAudio]_vars

AudioDone == pc = "done" /\ op = "Track::to_audio_path"

\* file i of the track is the one the priority rule designates: its format is
\* the earliest entry of the bitrate's compatibility list that any file of the
\* track has, and no earlier file has that format
Matched(t, b, i) ==
    \E k \in DOMAIN compatible_audio_formats(b) :
        /\ t.file[i].format = Some(compatible_audio_formats(b)[k])
        /\ \A j \in DOMAIN t.file : \A m \in 1..(k - 1) :
              t.file[j].format # Some(compatible_audio_formats(b)[m])
        /\ \A j \in 1..(i - 1) : t.file[j].format # t.file[i].format

\* the track with its files listed in every other order
Reordered(t) ==
    {[t EXCEPT !.file = [i \in DOMAIN t.file |-> t.file[p[i]]]] :
        p \in Permutations(DOMAIN t.file)}

DistinctFormats(t) ==
    \A i, j \in DOMAIN t.file : i # j => t.file[i].format # t.file[j].format

\* C5: the variant is selected by the compatibility list's order: a resolved
\* path carries the format and file id of the designated file, and listing
\* files of different formats in another order resolves to the same path.
C5_CompatibilityOrderSelects ==
    AudioDone =>
        /\ IsSome(Unwrap(ret)) =>
              \E i \in DOMAIN track.file :
                  /\ Matched(track, preferred_bitrate, i)
                  /\ Unwrap(Unwrap(ret)).file_format = Unwrap(track.file[i].format)
                  /\ Unwrap(Unwrap(ret)).file_id = [file_id |-> Unwrap(track.file[i].file_id)]
        /\ \A t \in Reordered(track) :
              LET r == to_audio_path(t, preferred_bitrate)
              IN  /\ (IsSome(r) /\ IsSome(Unwrap(ret))) =>
                        Unwrap(r).file_format = Unwrap(Unwrap(ret)).file_format
                  /\ DistinctFormats(track) => r = Unwrap(ret)

\* C5 witness: the track lists a less preferred compatible format before the
\* most preferred one, and the path resolved to the later file.
C5_Witness ==
    /\ AudioDone
    /\ IsSome(Unwrap(ret))
    /\ Len(track.file) >= 2
    /\ track.file[1].format = Some(compatible_audio_formats(preferred_bitrate)[3])
    /\ track.file[2].format = Some(compatible_audio_formats(preferred_bitrate)[1])
    /\ Unwrap(Unwrap(ret)).file_format = compatible_audio_formats(preferred_bitrate)[1]
    /\ Unwrap(Unwrap(ret)).file_id = [file_id |-> Unwrap(track.file[2].file_id)]

\* C6: resolution is all or nothing: absent when no file is compatible, or
\* when the track's bytes, the designated file's bytes or the duration are
\* missing, with no fallback to another variant; otherwise all four fields
\* come from the track's gid, the designated file and the track's duration.
C6_AllOrNothing ==
    AudioDone =>
        /\ (\A i \in DOMAIN track.file : ~Matched(track, preferred_bitrate, i)) => ret = Some(None)
        /\ \A i \in DOMAIN track.file :
              Matched(track, preferred_bitrate, i) =>
                  IF /\ UsableBytes(track.gid)
                     /\ UsableBytes(track.file[i].file_id)
                     /\ IsSome(track.duration)
                  THEN ret = Some(Some([item_id |-> [id |-> Unwrap(track.gid), id_type |-> "Track"],
                                        file_id |-> [file_id |-> Unwrap(track.file[i].file_id)],
                                        file_format |-> Unwrap(track.file[i].format),
                                        duration |-> [millis |-> Unwrap(track.duration)]]))
                  ELSE ret = Some(None)

\* C6 witness: the designated file has no usable bytes while another
\* compatible file, the track's bytes and the duration are all usable, and
\* the resolution returned absent.
C6_Witness ==
    /\ AudioDone
    /\ UsableBytes(track.gid)
    /\ IsSome(track.duration)
    /\ \E i, j \in DOMAIN track.file :
          /\ Matched(track, preferred_bitrate, i)
          /\ ~UsableBytes(track.file[i].file_id)
          /\ IsSome(track.file[j].format)
          /\ Unwrap(track.file[j].format) \in CompatibleFormats
          /\ UsableBytes(track.file[j].file_id)
    /\ ret = Some(None)

----------------------------------------------------------------------------
(* Fetch: retrieving a decoded message through the session *)

\* most fetch calls in a run
MaxFetches == 2

\* longest raw item id, in bytes
MaxIdLen == 2

\* byte values raw ids are made of
IdBytes == {0, 10, 255}

FetchIds == {[id |-> b, id_type |-> "Track"] :
               b \in UNION {[1..k -> IdBytes] : k \in 1..MaxIdLen}}

Ok(v) == [tag |-> "Ok", val |-> v]

Err(e) == [tag |-> "Err", val |-> e]

\* what the remote call may come back with: the decoded message, a transport
\* failure, or a body that does not decode
MercuryReplies == {Ok("Track"), Err("ConnectionError"), Err("ProtocolError")}

HexDigits == <<"0", "1", "2", "3", "4", "5", "6", "7", "8", "9", "a", "b", "c", "d", "e", "f">>

\* ItemId::to_base16: two lowercase hexadecimal digits per raw byte
to_base16(id_) ==
    [i \in 1..(2 * Len(id_.id)) |->
        IF i % 2 = 1 THEN HexDigits[(id_.id[(i + 1) \div 2] \div 16) + 1]
                     ELSE HexDigits[(id_.id[i \div 2] % 16) + 1]]

\* Fetch for Track::uri
Track_uri(id_) == <<"hm://metadata/3/track/">> \o to_base16(id_)

\* SessionHandle::connected: the connected session, or a connection error
\* when the session is not authenticated
SessionHandle_connected(authenticated_) ==
    IF authenticated_ THEN Ok("Session") ELSE Err("ConnectionError")

\* a fetch that issues the call without asking the session first
fetch_unchecked(authenticated_, id_, reply_) ==
    [ret |-> reply_, requests |-> <<Track_uri(id_)>>]

\* Fetch::fetch: `session.connected()?.get_mercury_protobuf(Self::uri(id))`;
\* reply_ is what get_mercury_protobuf comes back with
fetch(authenticated_, id_, reply_) ==
    LET connected == SessionHandle_connected(authenticated_)
    IN  IF connected.tag = "Err"
        THEN [ret |-> connected, requests |-> <<>>]
        ELSE [ret |-> reply_, requests |-> <<Track_uri(id_)>>]

InitFetch ==
    /\ IdlePure
    /\ session_authenticated \in BOOLEAN
    /\ fetch_count = 0
    /\ fetch_call = None
    /\ fetch_requests = <<>>
    /\ fetch_ret = None
    /\ IdleAuth

\* the session authenticates
SessionConnect ==
    /\ ~session_authenticated
    /\ session_authenticated' = TRUE
    /\ UNCHANGED <<fetch_count, fetch_call, fetch_requests, fetch_ret, pureVars, authVars>>

\* the session loses its connection
SessionDisconnect ==
    /\ session_authenticated
    /\ session_authenticated' = FALSE
    /\ UNCHANGED <<fetch_count, fetch_call, fetch_requests, fetch_ret, pureVars, authVars>>

CallFetch ==
    /\ fetch_count < MaxFetches
    /\ \E id \in FetchIds, reply \in MercuryReplies :
          LET out == fetch(session_authenticated, id, reply)
          IN  /\ fetch_call' = Some([id |-> id, authenticated |-> session_authenticated,
                                     reply |-> reply])
              /\ fetch_requests' = out.requests
              /\ fetch_ret' = Some(out.ret)
    /\ fetch_count' = fetch_count + 1
    /\ UNCHANGED <<session_authenticated, pureVars, authVars>>

NextFetch == SessionConnect \/ SessionDisconnect \/ CallFetch

SpecFetch == InitFetch /\ [][NextFetch]_vars

\* C7: a fetch on a session that is not authenticated returns the connection
\* error and issues no remote call; on an authenticated session it issues
\* exactly one call, addressed by uri(id), and returns what that call came
\* back with, an error included, unchanged.
C7_SessionCheckedThenOneCall ==
    IsSome(fetch_call) =>
        LET call == Unwrap(fetch_call)
        IN  IF call.authenticated
            THEN /\ fetch_requests = <<Track_uri(call.id)>>
                 /\ fetch_ret = Some(call.reply)
            ELSE /\ fetch_requests = <<>>
                 /\ fetch_ret = Some(Err("ConnectionError"))

\* C7 witness: a fetch was made on a session that was not authenticated, while
\* the remote side would have answered with the message.
C7_Witness ==
    /\ IsSome(fetch_call)
    /\ ~Unwrap(fetch_call).authenticated
    /\ Unwrap(fetch_call).reply = Ok("Track")
    /\ fetch_requests = <<>>
    /\ fetch_ret = Some(Err("ConnectionError"))

----------------------------------------------------------------------------
(* The Authenticate controller of the preferences window *)

\* most clicks on "Log In" in a run
MaxRequests == 2

\* most edits of the login form in a run
MaxEdits == 1

\* the logins the user may type into the form
Logins == {"alice", "bob"}

NoResult == [tag |-> "None", val |-> ""]

\* a command or input event on its way to the controller; `worker` tells which
\* worker submitted a RESPONSE and is carried for the record only
RequestEvent == [sel |-> "REQUEST", result |-> NoResult, worker |-> 0, text |-> ""]

ResponseEvent(result_, worker_) ==
    [sel |-> "RESPONSE", result |-> result_, worker |-> worker_, text |-> ""]

TextEvent(text_) == [sel |-> "TEXT", result |-> NoResult, worker |-> 0, text |-> text_]

IsRequest(ev) == ev.sel = "REQUEST"

IsResponse(ev) == ev.sel = "RESPONSE"

IsText(ev) == ev.sel = "TEXT"

\* Authentication::authenticate_and_get_credentials: the credentials for the
\* login of the session config, or an error message
AuthOutcomes(config_) == {Ok(config_), Err("rejected " \o config_)}

\* Promise::resolve_or_reject
resolve_or_reject(result_) ==
    IF result_.tag = "Ok" THEN <<"Resolved">> ELSE <<"Rejected", result_.val>>

\* Config::store_credentials
store_credentials(config_, credentials_) == Some(credentials_)

InitAuth ==
    /\ IdlePure
    /\ IdleFetch
    /\ thread = None
    /\ stored_credentials = None
    /\ auth_result = <<"Empty">>
    /\ auth_form \in Logins
    /\ event_queue = <<>>
    /\ workers = {}
    /\ spawned = 0
    /\ child_events = <<>>
    /\ handled = <<>>

\* the "Log In" button submits REQUEST
ClickLogIn ==
    /\ spawned + Len(SelectSeq(event_queue, IsRequest)) < MaxRequests
    /\ event_queue' = Append(event_queue, RequestEvent)
    /\ UNCHANGED <<thread, stored_credentials, auth_result, auth_form, workers, spawned,
                   child_events, handled>>
    /\ UNCHANGED <<pureVars, fetchVars>>

\* the user types a login; the input event travels to the text box through
\* the controller
TypeLogin ==
    /\ Len(child_events) + Len(SelectSeq(event_queue, IsText)) < MaxEdits
    /\ \E text \in Logins : event_queue' = Append(event_queue, TextEvent(text))
    /\ UNCHANGED <<thread, stored_credentials, auth_result, auth_form, workers, spawned,
                   child_events, handled>>
    /\ UNCHANGED <<pureVars, fetchVars>>

\* a worker thread finishes authenticating and submits its RESPONSE
WorkerResponds ==
    /\ \E w \in workers :
          \E response \in AuthOutcomes(w.config) :
              /\ event_queue' = Append(event_queue, ResponseEvent(response, w.id))
              /\ workers' = workers \ {w}
    /\ UNCHANGED <<thread, stored_credentials, auth_result, auth_form, spawned,
                   child_events, handled>>
    /\ UNCHANGED <<pureVars, fetchVars>>

\* a REQUEST arm that stops the worker of an earlier request
HandleRequestCancelling ==
    /\ event_queue # <<>>
    /\ IsRequest(Head(event_queue))
    /\ workers' = {[id |-> spawned + 1, config |-> auth_form]}
    /\ spawned' = spawned + 1
    /\ thread' = Some(spawned + 1)
    /\ event_queue' = Tail(event_queue)
    /\ handled' = Append(handled, Head(event_queue))
    /\ UNCHANGED <<stored_credentials, auth_result, auth_form, child_events>>
    /\ UNCHANGED <<pureVars, fetchVars>>

\* the REQUEST arm of Authenticate::event
HandleRequest ==
    /\ event_queue # <<>>
    /\ IsRequest(Head(event_queue))
    /\ workers' = workers \cup {[id |-> spawned + 1, config |-> auth_form]}
    /\ spawned' = spawned + 1
    /\ thread' = Some(spawned + 1)
    /\ event_queue' = Tail(event_queue)
    /\ handled' = Append(handled, Head(event_queue))
    /\ UNCHANGED <<stored_credentials, auth_result, auth_form, child_events>>
    /\ UNCHANGED <<pureVars, fetchVars>>

\* a RESPONSE arm that stores the credentials before looking at the result
HandleResponseStoringAlways ==
    /\ event_queue # <<>>
    /\ IsResponse(Head(event_queue))
    /\ stored_credentials' = store_credentials(stored_credentials, Head(event_queue).result.val)
    /\ auth_result' = resolve_or_reject(Head(event_queue).result)
    /\ thread' = None
    /\ event_queue' = Tail(event_queue)
    /\ handled' = Append(handled, Head(event_queue))
    /\ UNCHANGED <<auth_form, workers, spawned, child_events>>
    /\ UNCHANGED <<pureVars, fetchVars>>

\* the RESPONSE arm of Authenticate::event
HandleResponse ==
    /\ event_queue # <<>>
    /\ IsResponse(Head(event_queue))
    /\ LET result == Head(event_queue).result
       IN  /\ stored_credentials' =
                 IF result.tag = "Ok"
                 THEN store_credentials(stored_credentials, result.val)
                 ELSE stored_credentials
           /\ auth_result' = resolve_or_reject(result)
    /\ thread' = None
    /\ event_queue' = Tail(event_queue)
    /\ handled' = Append(handled, Head(event_queue))
    /\ UNCHANGED <<auth_form, workers, spawned, child_events>>
    /\ UNCHANGED <<pureVars, fetchVars>>

\* the default arm of Authenticate::event: the child widget gets the event,
\* and the text box writes the typed login into the form
ForwardToChild ==
    /\ event_queue # <<>>
    /\ ~IsRequest(Head(event_queue))
    /\ ~IsResponse(Head(event_queue))
    /\ child_events' = Append(child_events, Head(event_queue))
    /\ auth_form' = Head(event_queue).text
    /\ event_queue' = Tail(event_queue)
    /\ handled' = Append(handled, Head(event_queue))
    /\ UNCHANGED <<thread, stored_credentials, auth_result, workers, spawned>>
    /\ UNCHANGED <<pureVars, fetchVars>>

NextAuth ==
    \/ ClickLogIn
    \/ TypeLogin
    \/ WorkerResponds
    \/ HandleRequest
    \/ HandleResponse
    \/ ForwardToChild

SpecAuth == InitAuth /\ [][NextAuth]_vars

\* the step is the controller handling the oldest event in flight
Handles == event_queue # <<>> /\ handled' = Append(handled, Head(event_queue))

\* C9: credentials are written only when a successful RESPONSE is handled;
\* handling a REQUEST changes neither the stored credentials nor auth.result;
\* a failed RESPONSE leaves the credentials alone and rejects auth.result with
\* the error message; either RESPONSE clears the thread handle and is not
\* passed to the child widget.
C9_CredentialsOnlyOnSuccess ==
    [][/\ stored_credentials' # stored_credentials =>
             /\ Handles
             /\ IsResponse(Head(event_queue))
             /\ Head(event_queue).result.tag = "Ok"
       /\ (Handles /\ IsRequest(Head(event_queue))) =>
             /\ stored_credentials' = stored_credentials
             /\ auth_result' = auth_result
       /\ (Handles /\ IsResponse(Head(event_queue))) =>
             /\ thread' = None
             /\ child_events' = child_events
             /\ Head(event_queue).result.tag = "Ok" =>
                   stored_credentials' = Some(Head(event_queue).result.val)
             /\ Head(event_queue).result.tag = "Err" =>
                   /\ stored_credentials' = stored_credentials
                   /\ auth_result' = <<"Rejected", Head(event_queue).result.val>>
      ]_vars

LastOf(seq) == seq[Len(seq)]

\* C9 witness: the event handled last is a failed RESPONSE; the credentials of
\* an earlier success are still stored, auth.result is rejected with the
\* message, the handle is cleared and the child saw no command.
C9_Witness ==
    /\ handled # <<>>
    /\ IsResponse(LastOf(handled))
    /\ LastOf(handled).result.tag = "Err"
    /\ IsSome(stored_credentials)
    /\ auth_result = <<"Rejected", LastOf(handled).result.val>>
    /\ thread = None
    /\ \A i \in DOMAIN child_events : IsText(child_events[i])

\* the RESPONSEs handled so far, in the order they were handled
HandledResponses == SelectSeq(handled, IsResponse)

IsSuccess(ev) == IsResponse(ev) /\ ev.result.tag = "Ok"

IsCommand(ev) == IsRequest(ev) \/ IsResponse(ev)

\* how many events of the sequence are RESPONSEs of the worker
ResponsesOf(seq, w) == Cardinality({i \in DOMAIN seq : IsResponse(seq[i]) /\ seq[i].worker = w})

====
